---- MODULE Spec2Model ----
(***************************************************************************)
(* A model of AnnotaPDF's annotation engine (src/js/app.js): the tab       *)
(* registry, the per-tab highlight list with its undo/redo stacks, the     *)
(* pointer gesture that draws or erases highlights, zoom and rotation with *)
(* their rewrite of every stored rectangle, page navigation, and the       *)
(* asynchronous page render that sizes the canvas.                         *)
(*                                                                         *)
(* JavaScript numbers are binary floating point.  They are modelled as     *)
(* binary floating point of reduced precision: a number is <<m, e>>,       *)
(* standing for m * 2^e with m odd (or <<0, 0>>), and every arithmetic     *)
(* result is rounded to Precision significant bits, to nearest, ties to    *)
(* even, as IEEE 754 does with 53 bits.                                    *)
(***************************************************************************)
EXTENDS Integers, Sequences, FiniteSets, TLC

(***************************************************************************)
(* Program constants.                                                      *)
(***************************************************************************)
MAX_HISTORY_STEPS == 50

MIN_HIGHLIGHT_PX == 5

(***************************************************************************)
(* Bounds of the model.                                                    *)
(***************************************************************************)
\* significant bits of a number (53 in the program)
Precision == 8

(***************************************************************************)
(* Floating point.                                                         *)
(***************************************************************************)
RECURSIVE Pow2(_)
Pow2(n) == IF n <= 0 THEN 1 ELSE 2 * Pow2(n - 1)

IAbs(i) == IF i < 0 THEN 0 - i ELSE i

ISign(i) == IF i < 0 THEN 0 - 1 ELSE 1

IMin(i, j) == IF i < j THEN i ELSE j

RECURSIVE BitLen(_)
BitLen(n) == IF n <= 0 THEN 0 ELSE 1 + BitLen(n \div 2)

\* the canonical form of m * 2^e: m odd, or <<0, 0>>
RECURSIVE Strip(_, _)
Strip(m, e) ==
    IF m = 0 THEN <<0, 0>>
    ELSE IF IAbs(m) % 2 = 0 THEN Strip(ISign(m) * (IAbs(m) \div 2), e + 1)
    ELSE <<m, e>>

\* m * 2^e rounded to Precision significant bits, to nearest, ties to even
FRound(m, e) ==
    LET a == IAbs(m)
        k == BitLen(a) - Precision
    IN  IF k <= 0 THEN Strip(m, e)
        ELSE LET q    == a \div Pow2(k)
                 r    == a % Pow2(k)
                 half == Pow2(k - 1)
                 up   == IF r > half \/ (r = half /\ q % 2 = 1) THEN 1 ELSE 0
             IN  Strip(ISign(m) * (q + up), e + k)

FromInt(n) == FRound(n, 0)

\* NaN, Infinity and -Infinity are <<0, NonFinite>>, <<1, NonFinite>> and
\* <<0 - 1, NonFinite>>.  Zero has no sign: the program divides only by a
\* scale, and no scale is -0.
NonFinite == 4096

NaN == <<0, NonFinite>>

Infinity(sign) == <<sign, NonFinite>>

IsFinite(a) == a[2] # NonFinite

IsNaN(a) == a = NaN

\* the sign of a, 0 for zero and for NaN
Sgn(a) == IF a[1] < 0 THEN 0 - 1 ELSE IF a[1] > 0 THEN 1 ELSE 0

FNeg(a) == <<0 - a[1], a[2]>>

FAbs(a) == <<IAbs(a[1]), a[2]>>

\* a * b
FMul(a, b) ==
    IF IsNaN(a) \/ IsNaN(b) THEN NaN
    ELSE IF IsFinite(a) /\ IsFinite(b) THEN FRound(a[1] * b[1], a[2] + b[2])
    ELSE IF Sgn(a) * Sgn(b) = 0 THEN NaN
    ELSE Infinity(Sgn(a) * Sgn(b))

\* a / b: for finite a and b # 0, the quotient to 2 * Precision + 1 bits and a
\* sticky bit for the remainder, rounded once
FDiv(a, b) ==
    IF IsNaN(a) \/ IsNaN(b) THEN NaN
    ELSE IF ~IsFinite(a)
         THEN IF ~IsFinite(b) THEN NaN
              ELSE Infinity(Sgn(a) * (IF Sgn(b) < 0 THEN 0 - 1 ELSE 1))
    ELSE IF ~IsFinite(b) THEN <<0, 0>>
    ELSE IF b[1] = 0 THEN (IF a[1] = 0 THEN NaN ELSE Infinity(Sgn(a)))
    ELSE IF a[1] = 0 THEN <<0, 0>>
    ELSE LET n   == IAbs(a[1]) * Pow2(2 * Precision)
             d   == IAbs(b[1])
             q   == n \div d
             st  == IF n % d = 0 THEN 0 ELSE 1
             sg  == ISign(a[1]) * ISign(b[1])
         IN  FRound(sg * (2 * q + st), a[2] - b[2] - 2 * Precision - 1)

\* a + b
FAdd(a, b) ==
    IF IsNaN(a) \/ IsNaN(b) THEN NaN
    ELSE IF ~IsFinite(a) THEN (IF ~IsFinite(b) /\ b # a THEN NaN ELSE a)
    ELSE IF ~IsFinite(b) THEN b
    ELSE IF a[1] = 0 THEN b
    ELSE IF b[1] = 0 THEN a
    ELSE LET e == IMin(a[2], b[2])
         IN  FRound(a[1] * Pow2(a[2] - e) + b[1] * Pow2(b[2] - e), e)

FSub(a, b) == FAdd(a, FNeg(b))

\* the sign of a - b for a and b not NaN, which is exact
FCmp(a, b) ==
    IF ~IsFinite(a) THEN (IF a = b THEN 0 ELSE Sgn(a))
    ELSE IF ~IsFinite(b) THEN 0 - Sgn(b)
    ELSE IF a[1] = 0 THEN 0 - b[1]
    ELSE IF b[1] = 0 THEN a[1]
    ELSE LET e == IMin(a[2], b[2])
         IN  a[1] * Pow2(a[2] - e) - b[1] * Pow2(b[2] - e)

\* a < b and a <= b: false when either is NaN
FLt(a, b) == ~IsNaN(a) /\ ~IsNaN(b) /\ FCmp(a, b) < 0

FLe(a, b) == ~IsNaN(a) /\ ~IsNaN(b) /\ FCmp(a, b) <= 0

\* Math.min and Math.max
FMin(a, b) == IF IsNaN(a) \/ IsNaN(b) THEN NaN ELSE IF FLt(b, a) THEN b ELSE a

FMax(a, b) == IF IsNaN(a) \/ IsNaN(b) THEN NaN ELSE IF FLt(a, b) THEN b ELSE a

\* a >= 0 truncated to an integer, as the assignment to canvas.width does;
\* NaN and the infinities become 0
FTrunc(a) ==
    IF ~IsFinite(a) THEN 0
    ELSE IF a[2] >= 0 THEN a[1] * Pow2(a[2]) ELSE a[1] \div Pow2(0 - a[2])


(***************************************************************************)
(* Inputs of the model.                                                    *)
(***************************************************************************)
\* tabs opened in one behaviour
MaxTabs == 2

\* pages of an opened PDF
MaxPages == 2

\* asynchronous page renders in flight at once
MaxRenders == 2

\* highlight edits (draw, erase, delete, clear page, undo, redo) in one behaviour
MaxEdits == 4

\* the same, where the document is zoomed and rotated as well
ViewEdits == 3

\* zoom and rotate requests in one behaviour
MaxViews == 2

\* draws in the same millisecond as the draw before, in one behaviour
MaxSameMs == 1

\* highlight edits in one behaviour that starts with history one short of full
HistoryEdits == 3

\* zoom-fits and rotations in one behaviour of PDFs loading in tabs
AsyncViews == 2

\* highlight edits in one behaviour that pages through a PDF
PageEdits == 3

\* highlight edits in one behaviour that also edits, zooms and rotates
AllEdits == 2

\* highlights drawn in one behaviour that goes from page to page
NavEdits == 2

\* files opened, and highlights drawn, in one behaviour of gestures
GestureOpens == 2
GestureEdits == 2

\* exports of a PDF in flight at a time
MaxSaves == 1

\* highlight edits, and rotations, in one behaviour that exports
SaveEdits == 1
SaveViews == 1

\* highlight edits, and zooms and rotations, in one behaviour of two tabs
SessionEdits == 1
SessionViews == 1

\* documents opened, and highlights drawn, in one behaviour that opens,
\* switches and closes tabs
TabOpens == 3
TabEdits == 1

\* changes of tool, colour and opacity in one behaviour
MaxTools == 1

\* the width and height of a PDF page at scale 1, and of an image
PdfPageSize == <<16, 24>>

ImagePageSize == <<20, 12>>

\* the size of a canvas element before any render sets it
DefaultCanvasSize == <<300, 150>>

\* where pointer events land, in canvas coordinates (what clientToCanvas returns)
Points == {<<2, 3>>, <<8, 10>>, <<7, 9>>}

\* canvasArea.clientWidth when zoom-fit is clicked, and the margin it takes off
ClientWidths == {48, 58, 248}

FitMargin == 48

Colors == {"yellow", "green"}

Opacities == {100, 40}

DrawModes == {"highlight", "erase", "pan"}

\* PDF_RENDER_SCALE = 1.5, the zoom step 0.25 and the zoom range [0.25, 5]
PDF_RENDER_SCALE == <<3, 0 - 1>>

\* SAVE_RENDER_SCALE = 3.0
SAVE_RENDER_SCALE == <<3, 0>>

ZoomStep == <<1, 0 - 2>>

MinScale == <<1, 0 - 2>>

MaxScale == <<5, 0>>

VARIABLES
    tabs,               \* the registry: a sequence of TabState records
    detached,           \* closed TabState objects an unfinished render still holds
    activeTabId,        \* the active tab's id, 0 for null
    tabIdCounter,
    drawMode, activeColor, activeOpacity,
    isDrawing, startX, startY,
    canvasW, canvasH,   \* pdfCanvas.width, pdfCanvas.height
    currentRenderTask,  \* the id of the tracked render task, 0 for null
    renders,            \* the renderPdfPage calls in flight
    fits,               \* the zoom-fit calls awaiting their page: tab and areaW
    exports,            \* the savePdfFile calls in flight
    saved,              \* the pages of the last file handed to the download
    now,                \* what Date.now() returns
    left                \* what is left of each bound: opens, edits, views, tools,
                        \* sameMs (draws in the millisecond of the draw before),
                        \* inflight, the renders allowed in flight, and saves,
                        \* the exports allowed in flight

tabVars == <<tabs, detached, activeTabId, tabIdCounter>>

toolVars == <<drawMode, activeColor, activeOpacity>>

gestureVars == <<isDrawing, startX, startY>>

renderVars == <<canvasW, canvasH, currentRenderTask, renders>>

budgetVars == <<now, left>>

exportVars == <<exports, saved>>

vars == <<tabs, detached, activeTabId, tabIdCounter, drawMode, activeColor,
          activeOpacity, isDrawing, startX, startY, canvasW, canvasH,
          currentRenderTask, renders, fits, exports, saved, now, left>>

\* one unit of bound k is used
Spend(k) == left[k] > 0 /\ left' = [left EXCEPT ![k] = @ - 1]

(***************************************************************************)
(* Sequences.                                                              *)
(***************************************************************************)
Front(s) == SubSeq(s, 1, Len(s) - 1)

Last(s) == s[Len(s)]

(***************************************************************************)
(* TabState.  A highlight is a record id, page, x, y, w, h, color, opacity *)
(* and, not in the program, atScale and atRotation: the scale and rotation *)
(* whose coordinate space its rectangle is expressed in, set when it is    *)
(* drawn and rewritten with the rectangle.  An entry of history or future  *)
(* is a record items, the array of highlights, and live, whether it is the *)
(* very array object that tab.highlights refers to.                        *)
(***************************************************************************)
TabState(id, type, size) ==
    [id |-> id, type |-> type, size |-> size,
     currentPage |-> 1, totalPages |-> 1,
     scale |-> PDF_RENDER_SCALE, baseScale |-> PDF_RENDER_SCALE, rotation |-> 0,
     highlights |-> <<>>, history |-> <<>>, future |-> <<>>]

\* JSON.parse(JSON.stringify(highlights)): a new array of new objects
DeepClone(highlights) ==
    [i \in DOMAIN highlights |->
        [f \in DOMAIN highlights[i] |-> highlights[i][f]]]

\* a snapshot that is the live array itself and not a copy of it
Snapshot_Alias(highlights) == [items |-> highlights, live |-> TRUE]

Snapshot(highlights) == [items |-> DeepClone(highlights), live |-> FALSE]

\* tab.highlights = a new array: no entry is the live array any more
Unshare(stack) == [i \in DOMAIN stack |-> [stack[i] EXCEPT !.live = FALSE]]

SetHighlights(tab, highlights) ==
    [tab EXCEPT !.highlights = highlights,
                !.history = Unshare(tab.history),
                !.future = Unshare(tab.future)]

\* tab.highlights.push(h): the array grows in place
PushInPlace(stack, h) ==
    [i \in DOMAIN stack |->
        IF stack[i].live THEN [stack[i] EXCEPT !.items = Append(@, h)] ELSE stack[i]]

PushHighlight(tab, h) ==
    [tab EXCEPT !.highlights = Append(@, h),
                !.history = PushInPlace(tab.history, h),
                !.future = PushInPlace(tab.future, h)]

\* pushHistory without its shift: history grows without limit
pushHistory_NoEviction(tab) ==
    [tab EXCEPT !.history = Append(tab.history, Snapshot(tab.highlights)),
                !.future = <<>>]

\* pushHistory with pop for shift: the snapshot just pushed is the one dropped
pushHistory_EvictNewest(tab) ==
    LET pushed == Append(tab.history, Snapshot(tab.highlights))
    IN  [tab EXCEPT !.history = IF Len(pushed) > MAX_HISTORY_STEPS
                                THEN Front(pushed) ELSE pushed,
                    !.future = <<>>]

pushHistory(tab) ==
    LET pushed == Append(tab.history, Snapshot(tab.highlights))
    IN  [tab EXCEPT !.history = IF Len(pushed) > MAX_HISTORY_STEPS
                                THEN Tail(pushed) ELSE pushed,
                    !.future = <<>>]

\* tab.highlights = stack.pop(): the popped array becomes the live one
Install(tab, entry) ==
    IF entry.live THEN [tab EXCEPT !.highlights = entry.items]
    ELSE SetHighlights(tab, entry.items)

\* undo() past its guard
undoTab(tab) ==
    LET pushed == [tab EXCEPT !.future = Append(@, Snapshot(tab.highlights))]
        popped == [pushed EXCEPT !.history = Front(@)]
    IN  Install(popped, Last(tab.history))

\* redo() that does not push the current list onto history
redoTab_NoRecord(tab) ==
    Install([tab EXCEPT !.future = Front(@)], Last(tab.future))

\* redo() past its guard
redoTab(tab) ==
    LET pushed == [tab EXCEPT !.history = Append(@, Snapshot(tab.highlights))]
        popped == [pushed EXCEPT !.future = Front(@)]
    IN  Install(popped, Last(tab.future))

\* the rectangle anchored at the point where the drag started
DragRect_FromStart(sx, sy, px, py) ==
    [x |-> sx, y |-> sy,
     w |-> FAbs(FSub(px, sx)), h |-> FAbs(FSub(py, sy))]

\* the rectangle of onPointerUp
DragRect(sx, sy, px, py) ==
    [x |-> FMin(sx, px), y |-> FMin(sy, py),
     w |-> FAbs(FSub(px, sx)), h |-> FAbs(FSub(py, sy))]

TooSmall(r) ==
    FLt(r.w, FromInt(MIN_HIGHLIGHT_PX)) \/ FLt(r.h, FromInt(MIN_HIGHLIGHT_PX))

\* the highlight of onPointerUp filed under the first page
NewHighlight_FirstPage(tab, r, id, color, opacity) ==
    [id |-> id, page |-> 1,
     x |-> r.x, y |-> r.y, w |-> r.w, h |-> r.h,
     color |-> color, opacity |-> opacity,
     atScale |-> tab.scale, atRotation |-> tab.rotation]

NewHighlight(tab, r, id, color, opacity) ==
    [id |-> id, page |-> tab.currentPage,
     x |-> r.x, y |-> r.y, w |-> r.w, h |-> r.h,
     color |-> color, opacity |-> opacity,
     atScale |-> tab.scale, atRotation |-> tab.rotation]

\* the filter of eraseAt with the boundary left out
Contains_Strict(h, cx, cy) ==
    /\ FLt(h.x, cx) /\ FLt(cx, FAdd(h.x, h.w))
    /\ FLt(h.y, cy) /\ FLt(cy, FAdd(h.y, h.h))

\* the filter of eraseAt
Contains(h, cx, cy) ==
    /\ FLe(h.x, cx) /\ FLe(cx, FAdd(h.x, h.w))
    /\ FLe(h.y, cy) /\ FLe(cy, FAdd(h.y, h.h))

eraseTab(tab, cx, cy) ==
    LET Keep(h) == h.page # tab.currentPage \/ ~Contains(h, cx, cy)
    IN  SetHighlights(tab, SelectSeq(tab.highlights, Keep))

deleteTab(tab, id) ==
    LET Keep(h) == h.id # id
    IN  SetHighlights(pushHistory(tab), SelectSeq(tab.highlights, Keep))

clearPageTab(tab) ==
    LET Keep(h) == h.page # tab.currentPage
    IN  SetHighlights(pushHistory(tab), SelectSeq(tab.highlights, Keep))

\* the map of setScale
Rescale(h, ratio, newScale) ==
    [h EXCEPT !.x = FMul(h.x, ratio), !.y = FMul(h.y, ratio),
              !.w = FMul(h.w, ratio), !.h = FMul(h.h, ratio),
              !.atScale = newScale]

\* a change of scale that maps only the highlights of the page shown
setScaleTab_PageShown(tab, newScale) ==
    LET ratio == FDiv(newScale, tab.scale)
        mapped == [i \in DOMAIN tab.highlights |->
                      IF tab.highlights[i].page = tab.currentPage
                      THEN Rescale(tab.highlights[i], ratio, newScale)
                      ELSE tab.highlights[i]]
    IN  [SetHighlights(tab, mapped) EXCEPT !.scale = newScale]

setScaleTab(tab, newScale) ==
    LET ratio == FDiv(newScale, tab.scale)
        mapped == [i \in DOMAIN tab.highlights |->
                      Rescale(tab.highlights[i], ratio, newScale)]
    IN  [SetHighlights(tab, mapped) EXCEPT !.scale = newScale]

\* the new rotation without the wrap at 360
Turn_NoWrap(rotation, dir) == rotation + (IF dir = "cw" THEN 90 ELSE 0 - 90)

Turn(rotation, dir) == (rotation + (IF dir = "cw" THEN 90 ELSE 0 - 90) + 360) % 360

\* the map of rotate with the counter-clockwise y taken from the height
Rotate90_WrongExtent(h, dir, oldW, oldH, rotation) ==
    IF dir = "cw"
    THEN [h EXCEPT !.x = FSub(FSub(oldH, h.y), h.h), !.y = h.x,
                   !.w = h.h, !.h = h.w, !.atRotation = rotation]
    ELSE [h EXCEPT !.x = h.y, !.y = FSub(FSub(oldH, h.x), h.w),
                   !.w = h.h, !.h = h.w, !.atRotation = rotation]

\* the map of rotate
Rotate90(h, dir, oldW, oldH, rotation) ==
    IF dir = "cw"
    THEN [h EXCEPT !.x = FSub(FSub(oldH, h.y), h.h), !.y = h.x,
                   !.w = h.h, !.h = h.w, !.atRotation = rotation]
    ELSE [h EXCEPT !.x = h.y, !.y = FSub(FSub(oldW, h.x), h.w),
                   !.w = h.h, !.h = h.w, !.atRotation = rotation]

rotateTab(tab, dir, oldW, oldH) ==
    LET rotation == Turn(tab.rotation, dir)
        mapped   == [i \in DOMAIN tab.highlights |->
                        Rotate90(tab.highlights[i], dir, oldW, oldH, rotation)]
    IN  [SetHighlights(tab, mapped) EXCEPT !.rotation = rotation]

(***************************************************************************)
(* The registry.                                                           *)
(***************************************************************************)
TabIds == {tabs[i].id : i \in DOMAIN tabs}

\* tabs.findIndex(t => t.id === id), for an id that is there
IndexOf(id) == CHOOSE i \in DOMAIN tabs : tabs[i].id = id

\* getTab() is not null
HasTab == activeTabId \in TabIds

getTab == tabs[IndexOf(activeTabId)]

\* the registry with its first tab replaced
WithTab_First(tab) == [tabs EXCEPT ![1] = tab]

\* the registry with the active tab replaced
WithTab(tab) == [tabs EXCEPT ![IndexOf(activeTabId)] = tab]

\* the TabState object a render holds, in the registry or closed
TabObject(id) ==
    IF id \in TabIds THEN tabs[IndexOf(id)]
    ELSE CHOOSE t \in detached : t.id = id

\* the closed objects of ds that a render of rs, a zoom-fit of fs or an
\* export of es still holds
HeldBy(ds, rs, fs, es) ==
    {t \in ds : \/ \E i \in DOMAIN rs : rs[i].tab = t.id
                \/ \E f \in fs : f.tab = t.id
                \/ \E e \in es : e.tab = t.id}

Held(ds, rs) == HeldBy(ds, rs, fits, exports)

(***************************************************************************)
(* Rendering.  A render is a call of renderPdfPage in flight: id, tab (the *)
(* id of the TabState it holds), page, and pc: "getPage" while it awaits   *)
(* the page, "render" while its render task draws.                         *)
(***************************************************************************)
\* page.getViewport({scale, rotation}), and cw, ch of renderImagePage
Viewport(size, scale, rotation) ==
    LET w == FMul(FromInt(size[1]), scale)
        h == FMul(FromInt(size[2]), scale)
    IN  IF rotation = 90 \/ rotation = 270 THEN <<h, w>> ELSE <<w, h>>

RenderIds(rs) == {rs[i].id : i \in DOMAIN rs}

FreshRenderId(rs) ==
    CHOOSE n \in 1..(Len(rs) + 1) : n \notin RenderIds(rs)

\* currentRenderTask.cancel(): the task stops drawing and its call returns
Cancelled(rs) ==
    LET Keep(r) == r.id # currentRenderTask
    IN  SelectSeq(rs, Keep)

\* renderPage() with tab the active tab, when there is one
renderPage(tab) ==
    /\ currentRenderTask' = 0
    /\ IF tab.type = "pdf"
       THEN /\ Len(Cancelled(renders)) < left.inflight
            /\ renders' = Append(Cancelled(renders),
                                 [id |-> FreshRenderId(Cancelled(renders)),
                                  tab |-> tab.id, page |-> tab.currentPage,
                                  pc |-> "getPage"])
            /\ UNCHANGED <<canvasW, canvasH>>
       ELSE /\ renders' = Cancelled(renders)
            /\ canvasW' = FTrunc(Viewport(tab.size, tab.scale, tab.rotation)[1])
            /\ canvasH' = FTrunc(Viewport(tab.size, tab.scale, tab.rotation)[2])

\* renderPdfPage after getPage: the canvas is sized and the render task starts
RenderResume(i) ==
    /\ i \in DOMAIN renders
    /\ renders[i].pc = "getPage"
    /\ LET tab == TabObject(renders[i].tab)
           vp  == Viewport(tab.size, tab.scale, tab.rotation)
       IN  /\ canvasW' = FTrunc(vp[1])
           /\ canvasH' = FTrunc(vp[2])
    /\ currentRenderTask' = renders[i].id
    /\ renders' = [renders EXCEPT ![i].pc = "render"]
    /\ UNCHANGED <<fits, exportVars, tabVars, toolVars, gestureVars, budgetVars>>

\* renderPdfPage after its render task: currentRenderTask = null
RenderFinish(i) ==
    /\ i \in DOMAIN renders
    /\ renders[i].pc = "render"
    /\ currentRenderTask' = 0
    /\ renders' = [j \in 1..(Len(renders) - 1) |->
                      IF j < i THEN renders[j] ELSE renders[j + 1]]
    /\ detached' = Held(detached, renders')
    /\ UNCHANGED <<fits, exportVars, tabs, activeTabId, tabIdCounter, canvasW, canvasH,
                   toolVars, gestureVars, budgetVars>>

(***************************************************************************)
(* Tabs.                                                                   *)
(***************************************************************************)
\* activateTab(id), with registry the registry it finds
activateTab(registry, id) ==
    LET i   == CHOOSE j \in DOMAIN registry : registry[j].id = id
        tab == setScaleTab(registry[i], registry[i].scale)
    IN  /\ activeTabId' = id
        /\ tabs' = [registry EXCEPT ![i] = tab]
        /\ renderPage(tab)

\* an open that numbers the new tab by its place in the registry
OpenFile_ReuseId(type, pages) ==
    /\ Spend("opens")
    /\ tabIdCounter' = Len(tabs) + 1
    /\ LET size == IF type = "pdf" THEN PdfPageSize ELSE ImagePageSize
           tab  == [TabState(Len(tabs) + 1, type, size) EXCEPT !.totalPages = pages]
       IN  activateTab(Append(tabs, tab), Len(tabs) + 1)
    /\ detached' = Held(detached, renders')
    /\ UNCHANGED <<fits, exportVars, toolVars, gestureVars, now>>

\* loadPdfFile, loadImageFile once the file is read: createTab and activateTab
OpenFile(type, pages) ==
    /\ Spend("opens")
    /\ tabIdCounter' = tabIdCounter + 1
    /\ LET size == IF type = "pdf" THEN PdfPageSize ELSE ImagePageSize
           tab  == [TabState(tabIdCounter + 1, type, size) EXCEPT !.totalPages = pages]
       IN  activateTab(Append(tabs, tab), tabIdCounter + 1)
    /\ detached' = Held(detached, renders')
    /\ UNCHANGED <<fits, exportVars, toolVars, gestureVars, now>>

\* a click on a tab
ActivateTab(id) ==
    /\ id \in TabIds
    /\ activateTab(tabs, id)
    /\ detached' = Held(detached, renders')
    /\ UNCHANGED <<fits, exportVars, tabIdCounter, toolVars, gestureVars, budgetVars>>

\* closeTab(id)
CloseTab(id) ==
    /\ id \in TabIds
    /\ LET idx  == IndexOf(id)
           rest == [j \in 1..(Len(tabs) - 1) |->
                       IF j < idx THEN tabs[j] ELSE tabs[j + 1]]
       IN  IF rest = <<>>
           THEN /\ tabs' = rest
                /\ activeTabId' = 0
                /\ detached' = Held(detached \cup {tabs[idx]}, renders)
                /\ UNCHANGED renderVars
           ELSE /\ activateTab(rest, rest[IMin(idx, Len(rest))].id)
                /\ detached' = Held(detached \cup {tabs[idx]}, renders')
    /\ UNCHANGED <<fits, exportVars, tabIdCounter, toolVars, gestureVars, budgetVars>>

(***************************************************************************)
(* The toolbar.                                                            *)
(***************************************************************************)
SetDrawMode(mode) ==
    /\ drawMode' = mode
    /\ UNCHANGED <<fits, exportVars, activeColor, activeOpacity, tabVars, gestureVars,
                   renderVars, budgetVars>>

SetColor(color) ==
    /\ Spend("tools")
    /\ activeColor' = color
    /\ UNCHANGED <<fits, exportVars, drawMode, activeOpacity, tabVars, gestureVars,
                   renderVars, now>>

SetOpacity(opacity) ==
    /\ Spend("tools")
    /\ activeOpacity' = opacity
    /\ UNCHANGED <<fits, exportVars, drawMode, activeColor, tabVars, gestureVars,
                   renderVars, now>>

(***************************************************************************)
(* The pointer gesture.  startX and startY are read only while isDrawing,  *)
(* after onPointerDown has set them; the model forgets them when a gesture *)
(* ends.  The clock is read only by onPointerUp, so it advances there.     *)
(***************************************************************************)
\* canvasWrapper, whose listeners these are, has the size setCanvasSize gave
\* it: with no area it receives no pointer event
Pointable == canvasW > 0 /\ canvasH > 0

\* a pointer-down that starts a gesture with no tab open
onPointerDown_NoSession(pos) ==
    /\ Pointable
    /\ startX' = FromInt(pos[1])
    /\ startY' = FromInt(pos[2])
    /\ isDrawing' = TRUE
    /\ UNCHANGED <<fits, exportVars, tabVars, toolVars, renderVars, budgetVars>>

onPointerDown(pos) ==
    /\ Pointable
    /\ activeTabId # 0
    /\ startX' = FromInt(pos[1])
    /\ startY' = FromInt(pos[2])
    /\ isDrawing' = TRUE
    /\ UNCHANGED <<fits, exportVars, tabVars, toolVars, renderVars, budgetVars>>

\* eraseAt(cx, cy), reached from onPointerMove in erase mode
eraseAt(cx, cy) ==
    IF HasTab
    THEN /\ tabs' = WithTab(eraseTab(getTab, cx, cy))
         /\ IF Len(eraseTab(getTab, cx, cy).highlights) < Len(getTab.highlights)
            THEN Spend("edits")
            ELSE UNCHANGED left
    ELSE UNCHANGED <<tabs, left>>

onPointerMove(pos) ==
    /\ Pointable
    /\ isDrawing
    /\ IF drawMode = "erase"
       THEN eraseAt(FromInt(pos[1]), FromInt(pos[2]))
       ELSE UNCHANGED <<tabs, left>>
    /\ UNCHANGED <<fits, exportVars, detached, activeTabId, tabIdCounter, toolVars, gestureVars,
                   renderVars, now>>

\* ms is what the clock has advanced by when Date.now() is read
onPointerUp(pos, ms) ==
    /\ Pointable
    /\ isDrawing
    /\ isDrawing' = FALSE
    /\ startX' = FromInt(0)
    /\ startY' = FromInt(0)
    /\ LET r == DragRect(startX, startY, FromInt(pos[1]), FromInt(pos[2]))
       IN  IF drawMode = "pan" \/ drawMode = "erase" \/ ~HasTab \/ TooSmall(r)
           THEN ms = 0 /\ UNCHANGED <<tabs, left, now>>
           ELSE /\ left.edits > 0
                /\ ms = 0 => left.sameMs > 0
                /\ left' = [left EXCEPT !.edits = @ - 1, !.sameMs = @ - (1 - ms)]
                /\ now' = now + ms
                /\ tabs' = WithTab(PushHighlight(pushHistory(getTab),
                              NewHighlight(getTab, r, now + ms, activeColor,
                                           activeOpacity)))
    /\ UNCHANGED <<fits, exportVars, detached, activeTabId, tabIdCounter, toolVars, renderVars>>

\* the mouseleave listener
onMouseLeave ==
    /\ isDrawing' = FALSE
    /\ startX' = FromInt(0)
    /\ startY' = FromInt(0)
    /\ UNCHANGED <<fits, exportVars, tabVars, toolVars, renderVars, budgetVars>>

(***************************************************************************)
(* Edits of the highlight list.                                            *)
(***************************************************************************)
\* the ids deleteHighlight is called with: those of the active tab's highlights,
\* and 0 for the id of a highlight that is no longer there
DeleteIds ==
    {0} \cup (IF HasTab
              THEN {getTab.highlights[i].id : i \in DOMAIN getTab.highlights}
              ELSE {})

deleteHighlight(id) ==
    /\ HasTab
    /\ Spend("edits")
    /\ tabs' = WithTab(deleteTab(getTab, id))
    /\ UNCHANGED <<fits, exportVars, detached, activeTabId, tabIdCounter, toolVars, gestureVars,
                   renderVars, now>>

\* the clear-page-btn listener
clearPage ==
    /\ HasTab
    /\ Spend("edits")
    /\ tabs' = WithTab(clearPageTab(getTab))
    /\ UNCHANGED <<fits, exportVars, detached, activeTabId, tabIdCounter, toolVars, gestureVars,
                   renderVars, now>>

\* undo that pushes onto future before it looks at history
undo_Unguarded ==
    /\ IF HasTab
       THEN /\ Spend("edits")
            /\ tabs' = WithTab(IF getTab.history # <<>> THEN undoTab(getTab)
                               ELSE [getTab EXCEPT !.future =
                                        Append(@, Snapshot(getTab.highlights))])
       ELSE UNCHANGED <<tabs, left>>
    /\ UNCHANGED <<fits, exportVars, detached, activeTabId, tabIdCounter, toolVars, gestureVars,
                   renderVars, now>>

undo ==
    /\ IF HasTab /\ getTab.history # <<>>
       THEN /\ Spend("edits")
            /\ tabs' = WithTab(undoTab(getTab))
       ELSE UNCHANGED <<tabs, left>>
    /\ UNCHANGED <<fits, exportVars, detached, activeTabId, tabIdCounter, toolVars, gestureVars,
                   renderVars, now>>

redo ==
    /\ IF HasTab /\ getTab.future # <<>>
       THEN /\ Spend("edits")
            /\ tabs' = WithTab(redoTab(getTab))
       ELSE UNCHANGED <<tabs, left>>
    /\ UNCHANGED <<fits, exportVars, detached, activeTabId, tabIdCounter, toolVars, gestureVars,
                   renderVars, now>>

(***************************************************************************)
(* Zoom, rotation and page navigation.                                     *)
(***************************************************************************)
\* setScale(newScale) with the active tab there
setScale(newScale) ==
    /\ tabs' = WithTab(setScaleTab(getTab, newScale))
    /\ renderPage(setScaleTab(getTab, newScale))
    /\ detached' = Held(detached, renders')

\* the zoom-in listener
zoomIn ==
    /\ HasTab
    /\ Spend("views")
    /\ setScale(FMin(FAdd(getTab.scale, ZoomStep), MaxScale))
    /\ UNCHANGED <<fits, exportVars, activeTabId, tabIdCounter, toolVars, gestureVars,
                   now>>

\* the zoom-out listener
zoomOut ==
    /\ HasTab
    /\ Spend("views")
    /\ setScale(FMax(FSub(getTab.scale, ZoomStep), MinScale))
    /\ UNCHANGED <<fits, exportVars, activeTabId, tabIdCounter, toolVars, gestureVars,
                   now>>

\* the end of the zoom-fit listener, with captured the tab it started on,
\* registry and closed the tabs and the closed tabs it finds:
\* tab.baseScale = fit on captured, setScale(fit) on the active tab
applyFit(captured, areaW, registry, closed) ==
    LET naturalW == Viewport(captured.size, FromInt(1), captured.rotation)[1]
        fit      == FDiv(FromInt(areaW), naturalW)
        based    == [i \in DOMAIN registry |->
                        IF registry[i].id = captured.id
                        THEN [registry[i] EXCEPT !.baseScale = fit]
                        ELSE registry[i]]
        dropped  == {IF t.id = captured.id THEN [t EXCEPT !.baseScale = fit] ELSE t :
                        t \in closed}
    IN  IF HasTab
        THEN LET i   == IndexOf(activeTabId)
                 tab == setScaleTab(based[i], fit)
             IN  /\ tabs' = [based EXCEPT ![i] = tab]
                 /\ renderPage(tab)
                 /\ detached' = HeldBy(dropped, renders', fits', exports)
        ELSE /\ tabs' = based
             /\ detached' = HeldBy(dropped, renders, fits', exports)
             /\ UNCHANGED renderVars

\* the zoom-fit listener up to its await: an image has its width at once
zoomFit(clientWidth) ==
    /\ HasTab
    /\ Spend("views")
    /\ IF getTab.type = "pdf"
       THEN /\ fits' = fits \cup {[tab |-> activeTabId,
                                    areaW |-> clientWidth - FitMargin]}
            /\ UNCHANGED <<tabs, detached, renderVars>>
       ELSE /\ fits' = fits
            /\ applyFit(getTab, clientWidth - FitMargin, tabs, detached)
    /\ UNCHANGED <<exportVars, activeTabId, tabIdCounter, toolVars, gestureVars, now>>

\* the zoom-fit listener after getPage, for a PDF
FitResume(f) ==
    /\ f \in fits
    /\ fits' = fits \ {f}
    /\ applyFit(TabObject(f.tab), f.areaW, tabs, detached)
    /\ UNCHANGED <<exportVars, activeTabId, tabIdCounter, toolVars, gestureVars,
                   budgetVars>>

rotate(dir) ==
    /\ HasTab
    /\ Spend("views")
    /\ LET tab == rotateTab(getTab, dir, FromInt(canvasW), FromInt(canvasH))
       IN  /\ tabs' = WithTab(tab)
           /\ renderPage(tab)
    /\ detached' = Held(detached, renders')
    /\ UNCHANGED <<fits, exportVars, activeTabId, tabIdCounter, toolVars, gestureVars,
                   now>>

\* a change of page that keeps only the highlights of the page shown
showPage_OnlyThatPage(n) ==
    LET OnPage(h) == h.page = n
        tab == [SetHighlights(getTab, SelectSeq(getTab.highlights, OnPage))
                   EXCEPT !.currentPage = n]
    IN  /\ tabs' = WithTab(tab)
        /\ renderPage(tab)
        /\ detached' = Held(detached, renders')
        /\ UNCHANGED <<fits, exportVars, activeTabId, tabIdCounter, toolVars, gestureVars,
                       budgetVars>>

\* tab.currentPage = n; renderPage()
showPage(n) ==
    /\ tabs' = WithTab([getTab EXCEPT !.currentPage = n])
    /\ renderPage([getTab EXCEPT !.currentPage = n])
    /\ detached' = Held(detached, renders')
    /\ UNCHANGED <<fits, exportVars, activeTabId, tabIdCounter, toolVars, gestureVars, budgetVars>>

\* the characters a prompt's text is made of here
Digits == <<"0", "1", "2", "3", "4", "5", "6", "7", "8", "9">>

IsDigit(c) == \E d \in DOMAIN Digits : Digits[d] = c

DigitValue(c) == (CHOOSE d \in DOMAIN Digits : Digits[d] = c) - 1

\* text without its leading white space
RECURSIVE TrimStart(_)
TrimStart(text) ==
    IF text # <<>> /\ Head(text) = " " THEN TrimStart(Tail(text)) ELSE text

\* the value of the longest prefix of digits of text, after the digits read so far
RECURSIVE ReadDigits(_, _)
ReadDigits(text, sofar) ==
    IF text # <<>> /\ IsDigit(Head(text))
    THEN ReadDigits(Tail(text), 10 * sofar + DigitValue(Head(text)))
    ELSE sofar

\* parseInt(text, 10): white space, a sign, then digits up to the first
\* character that is not one; NaN when there is no digit
ParseInt(text) ==
    LET trimmed  == TrimStart(text)
        signed   == trimmed # <<>> /\ Head(trimmed) \in {"-", "+"}
        unsigned == IF signed THEN Tail(trimmed) ELSE trimmed
    IN  IF unsigned = <<>> \/ ~IsDigit(Head(unsigned))
        THEN [nan |-> TRUE, n |-> 0]
        ELSE [nan |-> FALSE,
              n   |-> IF signed /\ Head(trimmed) = "-"
                      THEN 0 - ReadDigits(unsigned, 0)
                      ELSE ReadDigits(unsigned, 0)]

\* what prompt returns: null on cancel, else the text typed
PromptResults ==
    {[cancelled |-> TRUE, text |-> <<>>]}
        \cup {[cancelled |-> FALSE, text |-> t] :
                 t \in {<<>>, <<"x">>, <<"2", "x">>, <<"-", "1">>, <<" ", "1">>}
                          \cup {<<Digits[n + 1]>> : n \in 0..(MaxPages + 1)}}

\* the range test with its upper bound left out
PageRejected_NoUpperBound(tab, parsed) ==
    parsed.nan \/ parsed.n < 1

\* the range test of the page-label listener
PageRejected(tab, parsed) ==
    parsed.nan \/ parsed.n < 1 \/ parsed.n > tab.totalPages

\* the page-label listener, with input what prompt returns
gotoPage(input) ==
    /\ HasTab
    /\ getTab.totalPages > 1
    /\ IF input.cancelled
       THEN UNCHANGED vars
       ELSE IF PageRejected(getTab, ParseInt(input.text))
            THEN UNCHANGED vars
            ELSE showPage(ParseInt(input.text).n)

prevPage ==
    /\ HasTab
    /\ getTab.currentPage > 1
    /\ showPage(getTab.currentPage - 1)

nextPage ==
    /\ HasTab
    /\ getTab.currentPage < getTab.totalPages
    /\ showPage(getTab.currentPage + 1)

(***************************************************************************)
(* Export.  An export is a call of savePdfFile in flight: tab (the id of   *)
(* the TabState it holds), page (pageNum), pc: "getPage" while it awaits   *)
(* the page, "render" while the page is drawn on its own canvas, rotation  *)
(* (that of the viewport it took for the page) and out, the pages made so  *)
(* far.  A page made is the extents and rotation of its canvas and the     *)
(* rectangles filled on it.                                                *)
(***************************************************************************)
\* the rectangle fillRect is called with, for highlight h
Baked(h, ratio) ==
    [x |-> FMul(h.x, ratio), y |-> FMul(h.y, ratio),
     w |-> FMul(h.w, ratio), h |-> FMul(h.h, ratio),
     color |-> h.color, opacity |-> h.opacity, atRotation |-> h.atRotation]

\* the rectangles of the highlights of page p of tab
BakedPage(tab, p, ratio) ==
    LET OnPage(h) == h.page = p
        list == SelectSeq(tab.highlights, OnPage)
    IN  [j \in DOMAIN list |-> Baked(list[j], ratio)]

\* saveImageFile(tab): the canvas as it is, with the highlights of the page
saveImageFile(tab) ==
    /\ saved' = <<[page |-> tab.currentPage, rotation |-> tab.rotation,
                   extents |-> <<canvasW, canvasH>>,
                   rects |-> BakedPage(tab, tab.currentPage, FromInt(1))]>>
    /\ UNCHANGED exports

\* saveFile(), up to the first await of savePdfFile for a PDF
saveFile ==
    /\ HasTab
    /\ IF getTab.type = "image"
       THEN saveImageFile(getTab)
       ELSE /\ Cardinality(exports) < left.saves
            /\ exports' = exports \cup {[tab |-> activeTabId, page |-> 1,
                                         pc |-> "getPage", rotation |-> 0,
                                         out |-> <<>>]}
            /\ UNCHANGED saved
    /\ UNCHANGED <<fits, tabVars, toolVars, gestureVars, renderVars, budgetVars>>

\* savePdfFile after getPage: the viewport at the tab's rotation, and the render
ExportResume(e) ==
    /\ e \in exports
    /\ e.pc = "getPage"
    /\ exports' = (exports \ {e})
           \cup {[e EXCEPT !.pc = "render", !.rotation = TabObject(e.tab).rotation]}
    /\ UNCHANGED <<saved, fits, tabVars, toolVars, gestureVars, renderVars,
                   budgetVars>>

\* the page savePdfFile makes of page e.page once it is rendered
ExportedPage(e) ==
    LET tab == TabObject(e.tab)
        vp  == Viewport(tab.size, SAVE_RENDER_SCALE, e.rotation)
    IN  [page |-> e.page, rotation |-> e.rotation,
         extents |-> <<FTrunc(vp[1]), FTrunc(vp[2])>>,
         rects |-> BakedPage(tab, e.page, FDiv(SAVE_RENDER_SCALE, tab.scale))]

\* a bake that scales the tab's own highlights to the export scale
ExportBake_InPlace(e) ==
    /\ e \in exports
    /\ e.pc = "render"
    /\ e.tab \in TabIds
    /\ LET tab    == TabObject(e.tab)
           ratio  == FDiv(SAVE_RENDER_SCALE, tab.scale)
           scaled == SetHighlights(tab, [j \in DOMAIN tab.highlights |->
                         Rescale(tab.highlights[j], ratio, tab.scale)])
           out    == Append(e.out, [ExportedPage(e) EXCEPT
                         !.rects = BakedPage(scaled, e.page, FromInt(1))])
       IN  /\ tabs' = [tabs EXCEPT ![IndexOf(e.tab)] = scaled]
           /\ IF e.page < tab.totalPages
              THEN /\ exports' = (exports \ {e})
                          \cup {[e EXCEPT !.page = @ + 1, !.pc = "getPage", !.out = out]}
                   /\ UNCHANGED <<saved, detached>>
              ELSE /\ exports' = exports \ {e}
                   /\ saved' = out
                   /\ detached' = HeldBy(detached, renders, fits, exports')
    /\ UNCHANGED <<fits, activeTabId, tabIdCounter, toolVars, gestureVars,
                   renderVars, budgetVars>>

\* savePdfFile after the render of a page: the highlights are baked, and
\* the next page is awaited or the file is saved
ExportBake(e) ==
    /\ e \in exports
    /\ e.pc = "render"
    /\ LET out == Append(e.out, ExportedPage(e))
       IN  IF e.page < TabObject(e.tab).totalPages
           THEN /\ exports' = (exports \ {e})
                       \cup {[e EXCEPT !.page = @ + 1, !.pc = "getPage", !.out = out]}
                /\ UNCHANGED <<saved, detached>>
           ELSE /\ exports' = exports \ {e}
                /\ saved' = out
                /\ detached' = HeldBy(detached, renders, fits, exports')
    /\ UNCHANGED <<fits, tabs, activeTabId, tabIdCounter, toolVars, gestureVars,
                   renderVars, budgetVars>>

\* getPage or the render rejects: savePdfFile ends in its catch
ExportFail(e) ==
    /\ e \in exports
    /\ exports' = exports \ {e}
    /\ detached' = HeldBy(detached, renders, fits, exports')
    /\ UNCHANGED <<saved, fits, tabs, activeTabId, tabIdCounter, toolVars,
                   gestureVars, renderVars, budgetVars>>

(***************************************************************************)
(* The specification.                                                      *)
(***************************************************************************)
\* the program as loaded, with budget what the behaviour may use of each bound
Fresh(budget) ==
    /\ tabs = <<>>
    /\ detached = {}
    /\ activeTabId = 0
    /\ tabIdCounter = 0
    /\ drawMode = "highlight"
    /\ activeColor = "yellow"
    /\ activeOpacity = 100
    /\ isDrawing = FALSE
    /\ startX = FromInt(0)
    /\ startY = FromInt(0)
    /\ canvasW = DefaultCanvasSize[1]
    /\ canvasH = DefaultCanvasSize[2]
    /\ currentRenderTask = 0
    /\ renders = <<>>
    /\ fits = {}
    /\ exports = {}
    /\ saved = <<>>
    /\ now = 1
    /\ left = budget

Init ==
    Fresh([opens |-> MaxTabs, edits |-> MaxEdits, views |-> MaxViews,
           tools |-> MaxTools, sameMs |-> MaxSameMs, inflight |-> MaxRenders,
           saves |-> MaxSaves])

FileActions ==
    \/ OpenFile("pdf", MaxPages)
    \/ OpenFile("image", 1)

TabActions ==
    \/ \E id \in 1..MaxTabs : ActivateTab(id)
    \/ \E id \in 1..MaxTabs : CloseTab(id)

RenderActions ==
    \/ \E i \in 1..MaxRenders : RenderResume(i)
    \/ \E i \in 1..MaxRenders : RenderFinish(i)

ToolActions ==
    \/ \E color \in Colors : SetColor(color)
    \/ \E opacity \in Opacities : SetOpacity(opacity)

GestureActions ==
    \/ \E mode \in DrawModes : SetDrawMode(mode)
    \/ \E pos \in Points : onPointerDown(pos)
    \/ \E pos \in Points : onPointerMove(pos)
    \/ \E pos \in Points, ms \in {0, 1} : onPointerUp(pos, ms)
    \/ onMouseLeave

EditActions ==
    \/ \E id \in DeleteIds : deleteHighlight(id)
    \/ clearPage
    \/ undo
    \/ redo

\* the zoom-fit calls that can be awaiting their page
FitCalls == [tab : 1..MaxTabs, areaW : {w - FitMargin : w \in ClientWidths}]

FitActions ==
    \/ \E w \in ClientWidths : zoomFit(w)
    \/ \E f \in FitCalls : FitResume(f)

ViewActions ==
    \/ zoomIn
    \/ zoomOut
    \/ \E dir \in {"cw", "ccw"} : rotate(dir)

NavActions ==
    \/ \E input \in PromptResults : gotoPage(input)
    \/ prevPage
    \/ nextPage

ExportActions ==
    \/ saveFile
    \/ \E e \in exports : ExportResume(e)
    \/ \E e \in exports : ExportBake(e)
    \/ \E e \in exports : ExportFail(e)

Next ==
    \/ FileActions
    \/ TabActions
    \/ RenderActions
    \/ ToolActions
    \/ GestureActions
    \/ EditActions
    \/ ViewActions
    \/ FitActions
    \/ NavActions
    \/ ExportActions

Spec == Init /\ [][Next]_vars

NextEdit ==
    \/ OpenFile("image", 1)
    \/ GestureActions
    \/ EditActions

\* one document, edited
InitEdit ==
    Fresh([opens |-> 1, edits |-> MaxEdits, views |-> 0, tools |-> 0,
           sameMs |-> MaxSameMs, inflight |-> 0, saves |-> 0])

SpecEdit == InitEdit /\ [][NextEdit]_vars

NextView ==
    \/ OpenFile("image", 1)
    \/ \E pos \in Points : onPointerDown(pos)
    \/ \E pos \in Points, ms \in {0, 1} : onPointerUp(pos, ms)
    \/ undo
    \/ redo
    \/ ViewActions

\* one document, drawn on, zoomed and rotated
InitView ==
    Fresh([opens |-> 1, edits |-> ViewEdits, views |-> MaxViews, tools |-> 0,
           sameMs |-> 0, inflight |-> 0, saves |-> 0])

SpecView == InitView /\ [][NextView]_vars

NextAll ==
    \/ OpenFile("image", 1)
    \/ GestureActions
    \/ EditActions
    \/ ViewActions

InitAll ==
    Fresh([opens |-> 1, edits |-> AllEdits, views |-> MaxViews, tools |-> 0,
           sameMs |-> 0, inflight |-> 0, saves |-> 0])

SpecAll == InitAll /\ [][NextAll]_vars

NextZoom ==
    \/ NextView
    \/ \E w \in ClientWidths : zoomFit(w)

\* one image, drawn on, zoomed, fitted and rotated
SpecZoom == InitView /\ [][NextZoom]_vars

NextAsync ==
    \/ OpenFile("pdf", 1)
    \/ TabActions
    \/ RenderActions
    \/ FitActions
    \/ \E dir \in {"cw", "ccw"} : rotate(dir)

\* PDFs in tabs, fitted and rotated while their pages load and render
InitAsync ==
    Fresh([opens |-> MaxTabs, edits |-> 0, views |-> AsyncViews, tools |-> 0,
           sameMs |-> 0, inflight |-> MaxRenders, saves |-> 0])

SpecAsync == InitAsync /\ [][NextAsync]_vars

NextPages ==
    \/ OpenFile("pdf", MaxPages)
    \/ RenderActions
    \/ NavActions
    \/ \E mode \in {"highlight", "erase"} : SetDrawMode(mode)
    \/ \E pos \in Points : onPointerDown(pos)
    \/ \E pos \in Points : onPointerMove(pos)
    \/ \E pos \in Points, ms \in {0, 1} : onPointerUp(pos, ms)

\* one PDF of several pages, paged through, drawn on and erased
InitPages ==
    Fresh([opens |-> 1, edits |-> PageEdits, views |-> 0, tools |-> 0,
           sameMs |-> 0, inflight |-> 1, saves |-> 0])

SpecPages == InitPages /\ [][NextPages]_vars

NextNav ==
    \/ OpenFile("pdf", MaxPages)
    \/ RenderActions
    \/ NavActions
    \/ \E pos \in Points : onPointerDown(pos)
    \/ \E pos \in Points, ms \in {0, 1} : onPointerUp(pos, ms)
    \/ undo
    \/ redo

\* one PDF of several pages, drawn on and gone through page by page
InitNav ==
    Fresh([opens |-> 1, edits |-> NavEdits, views |-> 0, tools |-> 0,
           sameMs |-> 0, inflight |-> 1, saves |-> 0])

SpecNav == InitNav /\ [][NextNav]_vars

\* a tab as it is after one highlight was drawn on its first page
Drawn(id, type, size, pages) ==
    LET tab == [TabState(id, type, size) EXCEPT !.totalPages = pages]
        r   == DragRect(FromInt(2), FromInt(3), FromInt(8), FromInt(10))
    IN  PushHighlight(pushHistory(tab),
                      NewHighlight(tab, r, id, "yellow", 100))

\* tab id after a PDF and then an image were opened and drawn on
DrawnTab(id) ==
    IF id = 1 THEN Drawn(1, "pdf", PdfPageSize, MaxPages)
    ELSE Drawn(2, "image", ImagePageSize, 1)

NextSessions ==
    \/ \E id \in 1..2 : ActivateTab(id)
    \/ RenderActions
    \/ \E mode \in {"highlight", "erase"} : SetDrawMode(mode)
    \/ \E pos \in Points : onPointerDown(pos)
    \/ \E pos \in Points : onPointerMove(pos)
    \/ \E pos \in Points : onPointerUp(pos, 1)
    \/ EditActions
    \/ ViewActions
    \/ NavActions

\* a PDF and an image opened and drawn on one after the other, the renders
\* settled
InitSessions ==
    /\ tabs = <<DrawnTab(1), DrawnTab(2)>>
    /\ detached = {}
    /\ activeTabId = 2
    /\ tabIdCounter = 2
    /\ drawMode = "highlight"
    /\ activeColor = "yellow"
    /\ activeOpacity = 100
    /\ isDrawing = FALSE
    /\ startX = FromInt(0)
    /\ startY = FromInt(0)
    /\ canvasW = FTrunc(Viewport(ImagePageSize, PDF_RENDER_SCALE, 0)[1])
    /\ canvasH = FTrunc(Viewport(ImagePageSize, PDF_RENDER_SCALE, 0)[2])
    /\ currentRenderTask = 0
    /\ renders = <<>>
    /\ fits = {}
    /\ exports = {}
    /\ saved = <<>>
    /\ now = 2
    /\ left = [opens |-> 0, edits |-> SessionEdits, views |-> SessionViews,
               tools |-> 0, sameMs |-> 0, inflight |-> 1, saves |-> 0]

SpecSessions == InitSessions /\ [][NextSessions]_vars

NextGeometry ==
    \/ RenderActions
    \/ \E pos \in Points : onPointerDown(pos)
    \/ \E pos \in Points : onPointerUp(pos, 1)
    \/ ViewActions
    \/ NavActions

\* one PDF of several pages, opened and drawn on, its render settled; it is
\* then drawn on again, paged through, zoomed and rotated
InitGeometry ==
    /\ tabs = <<DrawnTab(1)>>
    /\ detached = {}
    /\ activeTabId = 1
    /\ tabIdCounter = 1
    /\ drawMode = "highlight"
    /\ activeColor = "yellow"
    /\ activeOpacity = 100
    /\ isDrawing = FALSE
    /\ startX = FromInt(0)
    /\ startY = FromInt(0)
    /\ canvasW = FTrunc(Viewport(PdfPageSize, PDF_RENDER_SCALE, 0)[1])
    /\ canvasH = FTrunc(Viewport(PdfPageSize, PDF_RENDER_SCALE, 0)[2])
    /\ currentRenderTask = 0
    /\ renders = <<>>
    /\ fits = {}
    /\ exports = {}
    /\ saved = <<>>
    /\ now = 1
    /\ left = [opens |-> 0, edits |-> SessionEdits, views |-> SessionViews,
               tools |-> 0, sameMs |-> 0, inflight |-> 1, saves |-> 0]

SpecGeometry == InitGeometry /\ [][NextGeometry]_vars

NextTurns ==
    \/ OpenFile("image", 1)
    \/ \E pos \in Points : onPointerDown(pos)
    \/ \E pos \in Points : onPointerUp(pos, 1)
    \/ ViewActions

\* one image, drawn on, then zoomed and rotated
InitTurns ==
    Fresh([opens |-> 1, edits |-> SessionEdits, views |-> MaxViews, tools |-> 0,
           sameMs |-> 0, inflight |-> 0, saves |-> 0])

SpecTurns == InitTurns /\ [][NextTurns]_vars

NextGesture ==
    \/ OpenFile("image", 1)
    \/ \E id \in 1..GestureOpens : ActivateTab(id)
    \/ \E id \in 1..GestureOpens : CloseTab(id)
    \/ GestureActions
    \/ undo
    \/ redo

\* images opened, switched between and closed while gestures go on
InitGesture ==
    Fresh([opens |-> GestureOpens, edits |-> GestureEdits, views |-> 0,
           tools |-> 0, sameMs |-> 0, inflight |-> 0, saves |-> 0])

SpecGesture == InitGesture /\ [][NextGesture]_vars

NextExport ==
    \/ OpenFile("pdf", MaxPages)
    \/ RenderActions
    \/ \E pos \in Points : onPointerDown(pos)
    \/ \E pos \in Points : onPointerUp(pos, 1)
    \/ rotate("cw")
    \/ ExportActions

\* one PDF of several pages, drawn on, rotated and exported
InitExport ==
    Fresh([opens |-> 1, edits |-> SaveEdits, views |-> SaveViews, tools |-> 0,
           sameMs |-> 0, inflight |-> 1, saves |-> 1])

SpecExport == InitExport /\ [][NextExport]_vars

NextTabs ==
    \/ OpenFile("image", 1)
    \/ \E id \in 1..TabOpens : ActivateTab(id)
    \/ \E id \in 1..TabOpens : CloseTab(id)
    \/ \E pos \in Points : onPointerDown(pos)
    \/ \E pos \in Points, ms \in {0, 1} : onPointerUp(pos, ms)

\* several images, opened, drawn on, switched between and closed
InitTabs ==
    Fresh([opens |-> TabOpens, edits |-> TabEdits, views |-> 0, tools |-> 0,
           sameMs |-> 0, inflight |-> 0, saves |-> 0])

SpecTabs == InitTabs /\ [][NextTabs]_vars

(***************************************************************************)
(* A session with a long history.  Replay(n) is the image tab after n      *)
(* edits, a draw at each odd millisecond and a clear page at each even     *)
(* one, so that history holds n snapshots, <<>> and a single highlight by  *)
(* turns, each highlight with the id of its millisecond.                   *)
(***************************************************************************)
RECURSIVE Replay(_)
Replay(n) ==
    IF n = 0 THEN TabState(1, "image", ImagePageSize)
    ELSE LET tab == Replay(n - 1)
             r   == DragRect(FromInt(2), FromInt(3), FromInt(8), FromInt(10))
         IN  IF n % 2 = 1
             THEN PushHighlight(pushHistory(tab),
                                NewHighlight(tab, r, n, "yellow", 100))
             ELSE clearPageTab(tab)

InitHistory ==
    /\ tabs = <<Replay(MAX_HISTORY_STEPS - 1)>>
    /\ detached = {}
    /\ activeTabId = 1
    /\ tabIdCounter = 1
    /\ drawMode = "highlight"
    /\ activeColor = "yellow"
    /\ activeOpacity = 100
    /\ isDrawing = FALSE
    /\ startX = FromInt(0)
    /\ startY = FromInt(0)
    /\ canvasW = FTrunc(Viewport(ImagePageSize, PDF_RENDER_SCALE, 0)[1])
    /\ canvasH = FTrunc(Viewport(ImagePageSize, PDF_RENDER_SCALE, 0)[2])
    /\ currentRenderTask = 0
    /\ renders = <<>>
    /\ fits = {}
    /\ exports = {}
    /\ saved = <<>>
    /\ now = MAX_HISTORY_STEPS - 1
    /\ left = [opens |-> 0, edits |-> HistoryEdits, views |-> 0, tools |-> 0,
               sameMs |-> 0, inflight |-> 0, saves |-> 0]

NextHistory ==
    \/ \E pos \in Points : onPointerDown(pos)
    \/ \E pos \in Points, ms \in {0, 1} : onPointerUp(pos, ms)
    \/ EditActions

SpecHistory == InitHistory /\ [][NextHistory]_vars

(***************************************************************************)
(* The properties.  A step is told by the handler that takes it.           *)
(***************************************************************************)
\* the contents of a stack, entry by entry
Items(stack) == [i \in DOMAIN stack |-> stack[i].items]

\* a step of a handler that edits the highlight list: a draw, an erase, a
\* delete by id or a clear page
Mutation ==
    \/ \E pos \in Points, ms \in {0, 1} : onPointerUp(pos, ms)
    \/ \E pos \in Points : onPointerMove(pos)
    \/ \E id \in DeleteIds : deleteHighlight(id)
    \/ clearPage

\* a Mutation that changes the active tab's highlights
Edited == HasTab /\ Mutation /\ getTab'.highlights # getTab.highlights

\* a step of a handler that calls pushHistory
Recorded ==
    /\ HasTab
    /\ \/ \E pos \in Points, ms \in {0, 1} : onPointerUp(pos, ms) /\ tabs' # tabs
       \/ \E id \in DeleteIds : deleteHighlight(id)
       \/ clearPage

RECURSIVE UndoN(_, _)
\* tab after n calls of undo() in a row
UndoN(tab, n) ==
    IF n = 0 THEN tab
    ELSE LET before == UndoN(tab, n - 1)
         IN  IF before.history = <<>> THEN before ELSE undoTab(before)

\* C1: every highlight of every tab's live list is expressed in the
\* coordinate space of the tab's current scale and rotation.
C1_InCurrentSpace ==
    \A i \in DOMAIN tabs : \A j \in DOMAIN tabs[i].highlights :
        /\ tabs[i].highlights[j].atScale = tabs[i].scale
        /\ tabs[i].highlights[j].atRotation = tabs[i].rotation

\* C2: after a draw, an erase, a delete or a clear page that changed the
\* highlight list, an undo is available and gives back the list as it was
\* immediately before the operation.
C2_UndoRestoresPreEdit ==
    [][Edited => /\ getTab'.history # <<>>
                 /\ undoTab(getTab').highlights = getTab.highlights]_vars

\* C3: immediately after a draw, an erase, a delete or a clear page that
\* changed the highlight list, the tab's future is empty.
C3_NoRedoAfterEdit ==
    [][Edited => getTab'.future = <<>>]_vars

\* C4: undo then redo, when history is not empty, and redo then undo, when
\* future is not empty, leave highlights, history and future as they were.
C4_UndoRedoInverse ==
    \A i \in DOMAIN tabs :
        LET tab == tabs[i]
            Same(t) == /\ t.highlights = tab.highlights
                       /\ Items(t.history) = Items(tab.history)
                       /\ Items(t.future) = Items(tab.future)
        IN  /\ tab.history # <<>> => Same(redoTab(undoTab(tab)))
            /\ tab.future # <<>> => Same(undoTab(redoTab(tab)))

\* an undo has been taken and both undo and redo are available, on a list
\* that is not empty
C4_Witness ==
    /\ HasTab
    /\ getTab.history # <<>>
    /\ getTab.future # <<>>
    /\ getTab.highlights # <<>>

\* C5: history never holds more than MAX_HISTORY_STEPS snapshots.
C5_HistoryBounded ==
    \A i \in DOMAIN tabs : Len(tabs[i].history) <= MAX_HISTORY_STEPS

\* history is full and its oldest snapshot is no longer the first one taken:
\* a record was made on a full history
C5_Witness ==
    /\ HasTab
    /\ Len(getTab.history) = MAX_HISTORY_STEPS
    /\ getTab.history[1].items # <<>>

\* C6: a record made on a full history drops the oldest snapshot, keeps the
\* others in order and adds the list as it was before the edit; and from any
\* state, as many undos as history holds snapshots are possible and no more,
\* the k-th of them giving back the k-th most recent snapshot.
C6_EvictsOldest ==
    /\ [][(Recorded /\ Len(getTab.history) = MAX_HISTORY_STEPS) =>
             /\ Items(getTab'.history) =
                    Append(Tail(Items(getTab.history)), getTab.highlights)
             /\ getTab'.future = <<>>]_vars
    /\ [](\A i \in DOMAIN tabs :
            LET tab == tabs[i]
                n   == Len(tab.history)
            IN  \A k \in 1..n :
                    /\ UndoN(tab, k).highlights = tab.history[n - k + 1].items
                    /\ Len(UndoN(tab, k).history) = n - k)

\* two records were made on a full history: the oldest snapshot is the third
\* one taken, the newest the list before the last edit
C6_Witness ==
    /\ HasTab
    /\ Len(getTab.history) = MAX_HISTORY_STEPS
    /\ getTab.history[1].items = <<>>
    /\ getTab.history[2].items # <<>>
    /\ getTab.history[2].items[1].id = 3
    /\ getTab.future = <<>>

\* C7: undo with no active tab or an empty history, and redo with no active
\* tab or an empty future, change no tab: highlights, history and future stay.
C7_NothingToUndo ==
    /\ [][(undo /\ ~(HasTab /\ getTab.history # <<>>)) => tabs' = tabs]_vars
    /\ [][(redo /\ ~(HasTab /\ getTab.future # <<>>)) => tabs' = tabs]_vars

\* undos have emptied history: undo has nothing to restore, redo has
C7_Witness ==
    /\ HasTab
    /\ getTab.history = <<>>
    /\ getTab.future # <<>>

\* one stack before and after a step: the same, or pushed with the list as
\* it was before the step, with or without the oldest entry dropped, or
\* popped, or cleared
StackStep(old, new, pre) ==
    \/ new = old
    \/ new = Append(old, pre)
    \/ old # <<>> /\ new = Append(Tail(old), pre)
    \/ old # <<>> /\ new = Front(old)
    \/ new = <<>>

\* C8: no step changes the contents of a snapshot that stays on history or
\* future: each stack changes only by a push of the list as it was, a pop, an
\* eviction or a clearing.
C8_SnapshotsAreCopies ==
    [][\A i \in DOMAIN tabs :
          /\ StackStep(Items(tabs[i].history), Items(tabs'[i].history),
                       tabs[i].highlights)
          /\ StackStep(Items(tabs[i].future), Items(tabs'[i].future),
                       tabs[i].highlights)]_vars

\* a snapshot on history holds a highlight with the rectangle it had when the
\* snapshot was taken, while the live list holds it rescaled
C8_Witness ==
    /\ HasTab
    /\ \E k \in DOMAIN getTab.history :
       \E j \in DOMAIN getTab.history[k].items :
       \E l \in DOMAIN getTab.highlights :
          /\ getTab.history[k].items[j].id = getTab.highlights[l].id
          /\ getTab.history[k].items[j].x # getTab.highlights[l].x

\* C9: in every highlight list the ids are strictly increasing, hence
\* pairwise distinct.
C9_IdsIncrease ==
    \A i \in DOMAIN tabs :
    \A j, k \in DOMAIN tabs[i].highlights :
        j < k => tabs[i].highlights[j].id < tabs[i].highlights[k].id

\* C10: a drag in highlight mode whose rectangle is narrower or lower than
\* MIN_HIGHLIGHT_PX changes no tab; a drag that stores a highlight stores one
\* with x, y the smaller coordinates of the two endpoints, w, h the absolute
\* differences, and w, h at least MIN_HIGHLIGHT_PX.
C10_SmallDragDiscarded ==
    [][\A pos \in Points, ms \in {0, 1} :
          (onPointerUp(pos, ms) /\ HasTab /\ drawMode = "highlight") =>
             LET px == FromInt(pos[1])
                 py == FromInt(pos[2])
                 w  == FAbs(FSub(px, startX))
                 h  == FAbs(FSub(py, startY))
                 min == FromInt(MIN_HIGHLIGHT_PX)
             IN  /\ (FLt(w, min) \/ FLt(h, min)) => tabs' = tabs
                 /\ tabs' # tabs =>
                       /\ Len(getTab'.highlights) = Len(getTab.highlights) + 1
                       /\ LET stored == Last(getTab'.highlights)
                          IN  /\ stored.x = FMin(startX, px)
                              /\ stored.y = FMin(startY, py)
                              /\ stored.w = w
                              /\ stored.h = h
                              /\ FLe(min, stored.w)
                              /\ FLe(min, stored.h)]_vars

\* a highlight exactly MIN_HIGHLIGHT_PX wide has been stored, from a drag
\* that ran from right to left
C10_Witness ==
    /\ HasTab
    /\ \E j \in DOMAIN getTab.highlights :
          /\ getTab.highlights[j].w = FromInt(MIN_HIGHLIGHT_PX)
          /\ getTab.highlights[j].x = FromInt(2)
          /\ getTab.highlights[j].y = FromInt(3)

\* every array of highlights a tab stores: the live list and the snapshots
Stored(tab) ==
    {tab.highlights} \cup {tab.history[k].items : k \in DOMAIN tab.history}
                     \cup {tab.future[k].items : k \in DOMAIN tab.future}

\* C11: every highlight of the live list and of every snapshot on history or
\* future has w > 0 and h > 0.
C11_PositiveExtent ==
    \A i \in DOMAIN tabs : \A list \in Stored(tabs[i]) : \A j \in DOMAIN list :
        /\ FLt(FromInt(0), list[j].w)
        /\ FLt(FromInt(0), list[j].h)

\* C12: an erase at a point removes exactly the highlights of the current
\* page whose box, boundary included, holds the point, and keeps the others
\* as they are and in their order.
C12_EraseExactlyHits ==
    [][\A pos \in Points :
          (onPointerMove(pos) /\ drawMode = "erase" /\ HasTab) =>
             LET cx == FromInt(pos[1])
                 cy == FromInt(pos[2])
                 Hit(h) == /\ h.page = getTab.currentPage
                           /\ FCmp(cx, h.x) >= 0
                           /\ FCmp(cx, FAdd(h.x, h.w)) <= 0
                           /\ FCmp(cy, h.y) >= 0
                           /\ FCmp(cy, FAdd(h.y, h.h)) <= 0
                 Miss(h) == ~Hit(h)
             IN  getTab'.highlights = SelectSeq(getTab.highlights, Miss)]_vars

\* on page 2 a highlight drawn second has been erased, and the one drawn
\* first, on page 1, is still there
C12_Witness ==
    /\ HasTab
    /\ drawMode = "erase"
    /\ isDrawing
    /\ getTab.currentPage = 2
    /\ Len(getTab.history) = 2
    /\ getTab.future = <<>>
    /\ Len(getTab.highlights) = 1
    /\ getTab.highlights[1].page = 1
    /\ getTab.history[2].items = getTab.highlights

\* the scales the zoom-in and zoom-out listeners would set on tab
ZoomTargets(tab) ==
    {FMin(FAdd(tab.scale, ZoomStep), MaxScale),
     FMax(FSub(tab.scale, ZoomStep), MinScale)}

\* C13: a setScale to another scale followed by a setScale back to the
\* present scale leaves every highlight with exactly its present rectangle.
C13_RescaleRoundTrip ==
    \A i \in DOMAIN tabs : \A s2 \in ZoomTargets(tabs[i]) :
        setScaleTab(setScaleTab(tabs[i], s2), tabs[i].scale).highlights
            = tabs[i].highlights

\* h turned clockwise on a canvas of extents (canvasW, canvasH), then
\* counter-clockwise on the canvas of extents (canvasH, canvasW) this leaves
ThereAndBack(h) ==
    LET W == FromInt(canvasW)
        H == FromInt(canvasH)
    IN  Rotate90(Rotate90(h, "cw", W, H, Turn(h.atRotation, "cw")),
                 "ccw", H, W, h.atRotation)

\* the rounding error four subtractions of numbers up to H + |y| + h can add up to
RotateSlack(h) ==
    FMul(<<1, 3 - Precision>>,
         FAdd(FAdd(FromInt(canvasH), FAbs(h.y)), FAbs(h.h)))

\* C14, exact form: a clockwise rotate followed by a counter-clockwise rotate
\* with the extents swapped gives back every highlight exactly.
C14_RotateRoundTripExact ==
    \A i \in DOMAIN tabs : \A j \in DOMAIN tabs[i].highlights :
        ThereAndBack(tabs[i].highlights[j]) = tabs[i].highlights[j]

\* C14, up to rounding: a clockwise rotate followed by a counter-clockwise rotate
\* with the extents swapped gives back x, w and h of every highlight exactly
\* and y to within the rounding error of the subtractions.
C14_RotateRoundTrip ==
    \A i \in DOMAIN tabs : \A j \in DOMAIN tabs[i].highlights :
        LET h == tabs[i].highlights[j]
            r == ThereAndBack(h)
        IN  /\ r.x = h.x /\ r.w = h.w /\ r.h = h.h
            /\ r.id = h.id /\ r.page = h.page /\ r.atRotation = h.atRotation
            /\ FLe(FAbs(FSub(r.y, h.y)), RotateSlack(h))

\* a highlight whose y the round trip does not give back exactly
C14_Witness ==
    \E i \in DOMAIN tabs : \E j \in DOMAIN tabs[i].highlights :
        ThereAndBack(tabs[i].highlights[j]).y # tabs[i].highlights[j].y

\* the extents of the page of tab as rendered at its scale and rotation
Rendered(tab) ==
    LET vp == Viewport(tab.size, tab.scale, tab.rotation)
    IN  <<FTrunc(vp[1]), FTrunc(vp[2])>>

\* C15: the extents a rotate captures from the canvas are the extents of the
\* active tab's page as rendered at the rotation the tab has before the rotate.
C15_RotateUsesRenderedExtents ==
    [][(rotate("cw") \/ rotate("ccw")) =>
          <<canvasW, canvasH>> = Rendered(getTab)]_vars

\* C16: the scale of every tab is positive and lies within [0.25, 5].
C16_ScaleInRange ==
    \A i \in DOMAIN tabs :
        /\ FLt(FromInt(0), tabs[i].scale)
        /\ FLe(MinScale, tabs[i].scale)
        /\ FLe(tabs[i].scale, MaxScale)

\* the fit value of a tab for an available width
FitValue(tab, areaW) ==
    FDiv(FromInt(areaW), Viewport(tab.size, FromInt(1), tab.rotation)[1])

\* C17: when a fit-to-width started on a tab completes, that tab has
\* baseScale = scale = fit and its highlights rescaled by fit / scale, and no
\* other tab's scale, baseScale or highlights change.
C17_FitAppliesToOneTab ==
    [][\A f \in fits : FitResume(f) =>
          \A i \in DOMAIN tabs :
              IF tabs[i].id = f.tab
              THEN LET fit == FitValue(tabs[i], f.areaW)
                   IN  /\ tabs'[i].baseScale = fit
                       /\ tabs'[i].scale = fit
                       /\ Items(tabs'[i].highlights)
                             = Items(setScaleTab(tabs[i], fit).highlights)
              ELSE /\ tabs'[i].scale = tabs[i].scale
                   /\ tabs'[i].baseScale = tabs[i].baseScale
                   /\ tabs'[i].highlights = tabs[i].highlights]_vars

\* C18: with a highlight stored, an undo directly after a change of scale
\* gives back the highlights as they were before the change.
C18_ScaleChangeUndoable ==
    [][((zoomIn \/ zoomOut) /\ getTab.highlights # <<>>) =>
          /\ getTab'.history # <<>>
          /\ undoTab(getTab').highlights = getTab.highlights]_vars

\* C19: the current page of every tab is within 1..totalPages; a goto with a
\* cancelled prompt, with text that is no number or with a number outside
\* 1..totalPages leaves the current page as it is and a goto with a number n
\* inside sets it to n; previous-page acts only above page 1 and next-page
\* only below the last page, each by one page.
C19_PageInRange ==
    /\ [](\A i \in DOMAIN tabs :
              tabs[i].currentPage \in 1..tabs[i].totalPages)
    /\ [][\A input \in PromptResults : gotoPage(input) =>
              LET parsed == ParseInt(input.text)
              IN  IF \/ input.cancelled
                     \/ parsed.nan
                     \/ parsed.n \notin 1..getTab.totalPages
                  THEN getTab'.currentPage = getTab.currentPage
                  ELSE getTab'.currentPage = parsed.n]_vars
    /\ [][prevPage => /\ getTab.currentPage > 1
                      /\ getTab'.currentPage = getTab.currentPage - 1]_vars
    /\ [][nextPage => /\ getTab.currentPage < getTab.totalPages
                      /\ getTab'.currentPage = getTab.currentPage + 1]_vars

\* the last page of a document of several pages is shown
C19_Witness ==
    /\ HasTab
    /\ getTab.totalPages > 1
    /\ getTab.currentPage = getTab.totalPages

\* a step of a handler that changes the page shown
Navigation ==
    \/ \E input \in PromptResults : gotoPage(input)
    \/ prevPage
    \/ nextPage

\* C20: a goto, previous-page or next-page changes nothing of any tab but
\* the current page: highlights, history, future, scale and rotation stay.
C20_NavigationKeepsContent ==
    [][Navigation =>
          /\ DOMAIN tabs' = DOMAIN tabs
          /\ \A i \in DOMAIN tabs :
                 /\ tabs'[i].highlights = tabs[i].highlights
                 /\ tabs'[i].history = tabs[i].history
                 /\ tabs'[i].future = tabs[i].future
                 /\ tabs'[i].scale = tabs[i].scale
                 /\ tabs'[i].rotation = tabs[i].rotation
                 /\ tabs'[i] = [tabs[i] EXCEPT !.currentPage = tabs'[i].currentPage]]_vars

\* page 2 is shown while a highlight of page 1 and a snapshot are stored
C20_Witness ==
    /\ HasTab
    /\ getTab.currentPage = 2
    /\ \E j \in DOMAIN getTab.highlights : getTab.highlights[j].page = 1
    /\ getTab.history # <<>>
    /\ ~isDrawing

\* C21: every highlight of a tab, in its list and in every snapshot of its
\* history and future, has a page within 1..totalPages, and a highlight
\* added by a pointer-up has the page current at that pointer-up.
C21_HighlightPageInRange ==
    /\ [](\A i \in DOMAIN tabs : \A list \in Stored(tabs[i]) :
              \A j \in DOMAIN list : list[j].page \in 1..tabs[i].totalPages)
    /\ [][\A pos \in Points, ms \in {0, 1} :
              (onPointerUp(pos, ms) /\ HasTab
                  /\ Len(getTab'.highlights) = Len(getTab.highlights) + 1) =>
              getTab'.highlights[Len(getTab'.highlights)].page
                  = getTab.currentPage]_vars

\* a highlight drawn on page 2 is stored in a snapshot
C21_Witness ==
    /\ HasTab
    /\ \E k \in DOMAIN getTab.future :
           \E j \in DOMAIN getTab.future[k].items :
               getTab.future[k].items[j].page = 2

\* C22: closing the active tab while others remain makes the tab before it
\* in the registry the active one; closing the only tab leaves none active.
C22_CloseActivatesPreceding ==
    [][(HasTab /\ CloseTab(activeTabId)) =>
          LET idx == IndexOf(activeTabId)
          IN  IF Len(tabs) = 1 THEN activeTabId' = 0
              ELSE IF idx > 1 THEN activeTabId' = tabs[idx - 1].id
              ELSE activeTabId' \in {tabs'[i].id : i \in DOMAIN tabs'}]_vars

\* C23: closing a tab that is not the active one leaves the active tab the
\* active one, with its view and its highlights as they were.
C23_CloseOtherKeepsActive ==
    [][\A id \in 1..TabOpens : (HasTab /\ id # activeTabId /\ CloseTab(id)) =>
          /\ activeTabId' = activeTabId
          /\ getTab' = getTab]_vars

\* C24: no tab is active exactly when the registry is empty; otherwise the
\* active id is that of exactly one tab of the registry, so never that of a
\* closed tab; and the id of a tab that enters the registry is above every
\* id given before.
C24_ActivePointer ==
    /\ [](/\ (activeTabId = 0) <=> (tabs = <<>>)
          /\ tabs # <<>> =>
                 Cardinality({i \in DOMAIN tabs : tabs[i].id = activeTabId}) = 1
          /\ \A i \in DOMAIN tabs : tabs[i].id \in 1..tabIdCounter
          /\ \A i, j \in DOMAIN tabs : tabs[i].id = tabs[j].id => i = j)
    /\ [][/\ tabIdCounter' >= tabIdCounter
          /\ \A i \in DOMAIN tabs' :
                 tabs'[i].id \notin TabIds => tabs'[i].id > tabIdCounter]_vars

\* a tab is active after another tab has been closed
C24_Witness ==
    /\ HasTab
    /\ Len(tabs) < tabIdCounter
    /\ activeTabId < tabIdCounter

\* the renders that are drawing to the canvas
Drawing == {i \in DOMAIN renders : renders[i].pc = "render"}

\* C25: at most one render draws to the canvas at a time, the render task
\* kept in currentRenderTask is not null while a render draws, and a render
\* resizes the canvas and starts to draw only if no render started after it.
C25_RenderSupersedes ==
    /\ [](/\ Cardinality(Drawing) <= 1
          /\ Drawing # {} => currentRenderTask # 0)
    /\ [][\A i \in 1..MaxRenders : RenderResume(i) => i = Len(renders)]_vars

\* C26: no step of an export, from saveFile to the saved file or to the
\* failure of a page, changes any tab: highlights, history, future, scale,
\* baseScale, rotation and currentPage stay, also those of a closed tab an
\* export still holds.
C26_ExportReadOnly ==
    [][ExportActions => /\ tabs' = tabs
                        /\ detached' \subseteq detached]_vars

\* a file has been saved with a highlight baked on one of its pages
C26_Witness ==
    \E k \in DOMAIN saved : saved[k].rects # <<>>

\* C27: the rectangles an export fills on page p are the highlights of
\* page p the tab has at that instant, each times SAVE_RENDER_SCALE / scale,
\* and they are rectangles for the rotation the page was rendered at.
C27_ExportedPageConsistent ==
    [][\A e \in exports : ExportBake(e) =>
          LET tab   == TabObject(e.tab)
              pages == IF e.page < tab.totalPages
                       THEN (CHOOSE x \in exports' :
                                 /\ x.tab = e.tab /\ x.page = e.page + 1
                                 /\ Len(x.out) = Len(e.out) + 1).out
                       ELSE saved'
              made  == pages[Len(pages)]
              ratio == FDiv(SAVE_RENDER_SCALE, tab.scale)
              OnPage(h) == h.page = e.page
              list  == SelectSeq(tab.highlights, OnPage)
          IN  /\ made.page = e.page
              /\ Len(made.rects) = Len(list)
              /\ \A j \in DOMAIN list :
                     /\ made.rects[j].x = FMul(list[j].x, ratio)
                     /\ made.rects[j].y = FMul(list[j].y, ratio)
                     /\ made.rects[j].w = FMul(list[j].w, ratio)
                     /\ made.rects[j].h = FMul(list[j].h, ratio)
                     /\ made.rects[j].atRotation = made.rotation]_vars

\* the highlights of list as the program holds them: id, page, rectangle,
\* colour and opacity
Held_Fields == {"id", "page", "x", "y", "w", "h", "color", "opacity"}

AsHeld(list) == [j \in DOMAIN list |-> [f \in Held_Fields |-> list[j][f]]]

\* the snapshots of stack as the program holds them
ItemsAsHeld(stack) == [k \in DOMAIN stack |-> AsHeld(stack[k].items)]

\* C28: every step that keeps the registry and the active tab, so every
\* draw, erase, delete, clear page, undo, redo, zoom, rotation and change of
\* page, leaves every tab but the active one as it was, and a switch of tab
\* leaves the highlights, history and future of every tab as they were.
C28_SessionIsolation ==
    /\ [][(activeTabId' = activeTabId /\ DOMAIN tabs' = DOMAIN tabs) =>
             \A i \in DOMAIN tabs :
                    tabs[i].id # activeTabId => tabs'[i] = tabs[i]]_vars
    /\ [][(activeTabId' # activeTabId /\ DOMAIN tabs' = DOMAIN tabs) =>
             \A i \in DOMAIN tabs :
                    /\ AsHeld(tabs'[i].highlights) = AsHeld(tabs[i].highlights)
                    /\ ItemsAsHeld(tabs'[i].history) = ItemsAsHeld(tabs[i].history)
                    /\ ItemsAsHeld(tabs'[i].future) = ItemsAsHeld(tabs[i].future)]_vars

\* the first tab is active again, as it was drawn, after the second tab was
\* zoomed and edited
C28_Witness ==
    /\ activeTabId = 1
    /\ Len(tabs) = 2
    /\ tabs[1] = DrawnTab(1)
    /\ tabs[2].scale # PDF_RENDER_SCALE
    /\ Items(tabs[2].history) # Items(DrawnTab(2).history)

\* a step of the zoom-in or the zoom-out listener
Zoomed == zoomIn \/ zoomOut

\* C29: a change of scale and a rotation keep the number and the order of
\* the active tab's highlights and the id, page, colour and opacity of each,
\* and give every one of them, on whatever page, its new rectangle: x, y, w
\* and h times newScale / scale, or turned by a quarter on the old canvas.
C29_GeometryOnly ==
    /\ [][(HasTab /\ (Zoomed \/ rotate("cw") \/ rotate("ccw"))) =>
             /\ DOMAIN getTab'.highlights = DOMAIN getTab.highlights
             /\ \A j \in DOMAIN getTab.highlights :
                    \A f \in {"id", "page", "color", "opacity"} :
                        getTab'.highlights[j][f] = getTab.highlights[j][f]]_vars
    /\ [][(HasTab /\ Zoomed) =>
             LET ratio == FDiv(getTab'.scale, getTab.scale)
             IN  \A j \in DOMAIN getTab.highlights :
                     \A f \in {"x", "y", "w", "h"} :
                         getTab'.highlights[j][f]
                             = FMul(getTab.highlights[j][f], ratio)]_vars
    /\ [][(HasTab /\ rotate("cw")) =>
             \A j \in DOMAIN getTab.highlights :
                 LET old == getTab.highlights[j]
                     new == getTab'.highlights[j]
                 IN  /\ new.x = FSub(FSub(FromInt(canvasH), old.y), old.h)
                     /\ new.y = old.x
                     /\ new.w = old.h
                     /\ new.h = old.w]_vars
    /\ [][(HasTab /\ rotate("ccw")) =>
             \A j \in DOMAIN getTab.highlights :
                 LET old == getTab.highlights[j]
                     new == getTab'.highlights[j]
                 IN  /\ new.x = old.y
                     /\ new.y = FSub(FSub(FromInt(canvasW), old.x), old.w)
                     /\ new.w = old.h
                     /\ new.h = old.w]_vars

\* a highlight of a page that is not shown has been given a new rectangle
\* by a change of scale
C29_Witness ==
    /\ HasTab
    /\ \E j \in DOMAIN getTab.highlights :
           /\ getTab.highlights[j].page # getTab.currentPage
           /\ getTab.highlights[j].atScale # PDF_RENDER_SCALE
           /\ getTab.highlights[j].atScale = getTab.scale

\* h after n rotations in direction dir, the first on a canvas of extents
\* (W, H) and each next one on the canvas the one before leaves
RECURSIVE Turns(_, _, _, _, _)
Turns(h, dir, n, W, H) ==
    IF n = 0 THEN h
    ELSE Turns(Rotate90(h, dir, W, H, Turn(h.atRotation, dir)), dir, n - 1, H, W)

\* four rotations of h in direction dir, the first on the canvas as it is
FourTurns(h, dir) == Turns(h, dir, 4, FromInt(canvasW), FromInt(canvasH))

\* the rounding error four subtractions of numbers up to extent + |at| + len
\* can add up to
TurnSlack(extent, at, len) ==
    FMul(<<1, 3 - Precision>>, FAdd(FAdd(FromInt(extent), FAbs(at)), FAbs(len)))

Touched ==
    /\ HasTab
    /\ activeTabId' = activeTabId
    /\ DOMAIN tabs' = DOMAIN tabs
    /\ \/ Len(getTab'.highlights) > Len(getTab.highlights)
       \/ getTab'.history # getTab.history

\* C31: apart from undo and redo, a step of the gesture, toolbar and tab
\* listeners appends a highlight or pushes a history entry only if it ends a
\* gesture that is under way in highlight mode, and then it appends exactly
\* one highlight to the active tab and pushes the list as it was; a gesture
\* starts only with a tab active and changes no tab by starting; a
\* mouse-leave ends the gesture and changes no tab; a pointer-up in pan or
\* erase mode changes no tab.
C31_GestureStateMachine ==
    /\ [][(Touched /\ ~undo /\ ~redo) =>
             /\ isDrawing
             /\ ~isDrawing'
             /\ drawMode = "highlight"
             /\ Len(getTab'.highlights) = Len(getTab.highlights) + 1
             /\ Front(getTab'.highlights) = getTab.highlights
             /\ getTab'.history # <<>>
             /\ Items(getTab'.history)[Len(getTab'.history)] = getTab.highlights
             /\ \A i \in DOMAIN tabs :
                    tabs[i].id # activeTabId => tabs'[i] = tabs[i]]_vars
    /\ [][(~isDrawing /\ isDrawing') =>
             (activeTabId # 0 /\ activeTabId' = activeTabId /\ tabs' = tabs)]_vars
    /\ [][onMouseLeave => (~isDrawing' /\ tabs' = tabs)]_vars
    /\ [][(isDrawing /\ ~isDrawing' /\ drawMode # "highlight") => tabs' = tabs]_vars

\* a gesture has ended, having appended the one highlight of the active tab
\* and pushed the list as it was, and the tool is now the eraser
C31_Witness ==
    /\ HasTab
    /\ Len(getTab.highlights) = 1
    /\ Len(getTab.history) = 1
    /\ ~isDrawing
    /\ drawMode = "erase"

\* the active tab has a highlight with this id
Present(id) == \E j \in DOMAIN getTab.highlights : getTab.highlights[j].id = id

\* the page shown of the active tab has no highlight
PageEmpty ==
    \A j \in DOMAIN getTab.highlights :
        getTab.highlights[j].page # getTab.currentPage

\* C32: a delete by an id that no highlight of the active tab has, and a
\* clear page on a page with no highlights, leave the tab's highlights,
\* history and future as they were; a delete by an id that is there removes
\* exactly the highlights with that id and keeps the others in their order.
C32_NoOpEditsKeepHistory ==
    /\ [][\A id \in DeleteIds :
             (HasTab /\ ~Present(id) /\ deleteHighlight(id)) => tabs' = tabs]_vars
    /\ [][(HasTab /\ PageEmpty /\ clearPage) => tabs' = tabs]_vars
    /\ [][\A id \in DeleteIds :
             (HasTab /\ Present(id) /\ deleteHighlight(id)) =>
                 LET Keep(h) == h.id # id
                 IN  /\ getTab'.highlights = SelectSeq(getTab.highlights, Keep)
                     /\ Len(getTab'.highlights) < Len(getTab.highlights)]_vars

====
